---- MODULE Spec2Model ----
(***************************************************************************)
(* FiscAI Lambda MCP bridge: the HTTP-triggered handler (src/index.js),    *)
(* the upstream client and the response normalisers (src/mcp_bridge.js).   *)
(*                                                                         *)
(* Two specifications share the variables:                                 *)
(*   Spec      one handler invocation: routing, validation, the upstream   *)
(*             calls with their fallbacks, the outward response;           *)
(*   PureSpec  the pure functions calculateSimpleRisk, extractMcpResponse, *)
(*             extractDocuments and the response decoding of               *)
(*             makeHttpRequest applied to inputs drawn from bounded sets.  *)
(***************************************************************************)
EXTENDS Integers, Sequences, FiniteSets, TLC

VARIABLES
    pc,         \* position of the invocation: idle, primary, fallback, retry, done
    event,      \* the inbound event of the invocation
    call,       \* the upstream call in progress: kind (tool/prompt/none) and name
    requests,   \* outbound HTTP requests issued so far, in order
    primary,    \* outcome of the primary request (response or transport failure)
    last,       \* outcome of the most recent fallback request
    outcome,    \* what the upstream call returned or threw
    response,   \* outward response of exports.handler
    fn,         \* PureSpec: the function under application
    arg,        \* PureSpec: its input
    out         \* PureSpec: its output (or the exception it raised)

flowVars == <<pc, event, call, requests, primary, last, outcome, response>>
pureVars == <<fn, arg, out>>
vars == <<pc, event, call, requests, primary, last, outcome, response, fn, arg, out>>

(***************************************************************************)
(* Bounds of the model.                                                    *)
(***************************************************************************)
\* longest list of source documents an upstream payload carries
MaxDocs == 1
\* most lines of a server-sent-event body
MaxLines == 2

(***************************************************************************)
(* JavaScript values as a tagged union, and the JavaScript semantics the   *)
(* code relies on: truthiness, property access, Array.isArray, typeof.     *)
(***************************************************************************)
Undef == [t |-> "undef"]
Null == [t |-> "null"]
Bool(b) == [t |-> "bool", b |-> b]
Num(n) == [t |-> "num", n |-> n]
Str(s) == [t |-> "str", s |-> s]
Arr(a) == [t |-> "arr", a |-> a]
Obj(o) == [t |-> "obj", o |-> o]

\* an object literal whose properties with value undefined are left out
Strip(f) == [k \in {j \in DOMAIN f : f[j] # Undef} |-> f[k]]

\* the outcome of an evaluation: a value, or a thrown error
Ret(v) == [ok |-> TRUE, val |-> v]
Throw(e) == [ok |-> FALSE, err |-> e]

Truthy(v) ==
    CASE v.t = "undef" -> FALSE
      [] v.t = "null" -> FALSE
      [] v.t = "bool" -> v.b
      [] v.t = "num" -> v.n # 0
      [] v.t = "str" -> v.s # ""
      [] OTHER -> TRUE

IsNullish(v) == v.t \in {"undef", "null"}
IsArray(v) == v.t = "arr"
IsString(v) == v.t = "str"

\* v.k for a v that is not null or undefined (on those JavaScript throws a
\* TypeError, which the callers test with IsNullish before the access)
Get(v, k) ==
    IF v.t = "obj" /\ k \in DOMAIN v.o THEN v.o[k] ELSE Undef

\* a || b
Or(a, b) == IF Truthy(a) THEN a ELSE b

(***************************************************************************)
(* JSON texts.  JSON.parse is a partial function on strings: the texts of  *)
(* the model that are JSON, each with the value it parses to; every other  *)
(* string makes JSON.parse throw a SyntaxError.                            *)
(***************************************************************************)
DocA == Obj([title |-> Str("A")])
DocB == Obj([title |-> Str("B"), url |-> Str("u")])
DocC == Obj([title |-> Str("C")])
DocD == Obj([title |-> Str("D")])

ExtractionTexts ==
       ("null" :> Null)
    @@ ("5" :> Num(5))
    @@ ("{\"other\":1}" :> Obj([other |-> Num(1)]))
    @@ ("{\"data\":{\"recommendation\":\"Y\"}}" :>
            Obj([data |-> Obj([recommendation |-> Str("Y")])]))
    @@ ("{\"data\":{\"response\":\"R\"}}" :>
            Obj([data |-> Obj([response |-> Str("R")])]))
    @@ ("{\"recommendation\":\"Z\"}" :> Obj([recommendation |-> Str("Z")]))
    @@ ("{\"data\":{\"recommendation\":\"Y\",\"response\":\"R\"},\"recommendation\":\"Z\"}" :>
            Obj([data |-> Obj([recommendation |-> Str("Y"), response |-> Str("R")]),
                 recommendation |-> Str("Z")]))
    @@ ("{\"data\":{\"response\":\"R\"},\"recommendation\":\"Z\"}" :>
            Obj([data |-> Obj([response |-> Str("R")]), recommendation |-> Str("Z")]))
    @@ ("{\"data\":{\"recommendation\":\"\",\"response\":\"R\"}}" :>
            Obj([data |-> Obj([recommendation |-> Str(""), response |-> Str("R")])]))
    @@ ("{\"data\":\"D\",\"recommendation\":\"Z\"}" :>
            Obj([data |-> Str("D"), recommendation |-> Str("Z")]))
    @@ ("{\"data\":{\"recommendation\":\"Y\",\"sources\":[{\"title\":\"A\"}]}}" :>
            Obj([data |-> Obj([recommendation |-> Str("Y"), sources |-> Arr(<<DocA>>)])]))
    @@ ("{\"data\":{\"sources\":[],\"documents\":[{\"title\":\"B\",\"url\":\"u\"}]}}" :>
            Obj([data |-> Obj([sources |-> Arr(<<>>), documents |-> Arr(<<DocB>>)])]))
    @@ ("{\"data\":{\"documents\":[{\"title\":\"B\",\"url\":\"u\"}]},\"sources\":[{\"title\":\"C\"}]}" :>
            Obj([data |-> Obj([documents |-> Arr(<<DocB>>)]), sources |-> Arr(<<DocC>>)]))
    @@ ("{\"data\":{\"sources\":\"none\"},\"sources\":[{\"title\":\"C\"}],\"documents\":[{\"title\":\"D\"}]}" :>
            Obj([data |-> Obj([sources |-> Str("none")]), sources |-> Arr(<<DocC>>),
                 documents |-> Arr(<<DocD>>)]))
    @@ ("{\"sources\":[],\"documents\":[{\"title\":\"D\"}]}" :>
            Obj([sources |-> Arr(<<>>), documents |-> Arr(<<DocD>>)]))
    @@ ("{\"documents\":[{\"title\":\"D\"}]}" :> Obj([documents |-> Arr(<<DocD>>)]))
    @@ ("{\"data\":{\"documents\":[]},\"documents\":[{\"title\":\"D\"}]}" :>
            Obj([data |-> Obj([documents |-> Arr(<<>>)]), documents |-> Arr(<<DocD>>)]))

\* bodies the upstream server answers with
WireTexts ==
       ("{\"error\":{\"code\":-32600}}" :> Obj([error |-> Obj([code |-> Num(-32600)])]))
    @@ ("{\"error\":{\"code\":-32601}}" :> Obj([error |-> Obj([code |-> Num(-32601)])]))
    @@ ("{\"result\":{\"data\":{\"recommendation\":\"Y\",\"sources\":[{\"title\":\"A\"}]}}}" :>
            Obj([result |-> Obj([data |-> Obj([recommendation |-> Str("Y"),
                                               sources |-> Arr(<<DocA>>)])])]))
    @@ ("{\"result\":{\"data\":{\"sources\":[null]}}}" :>
            Obj([result |-> Obj([data |-> Obj([sources |-> Arr(<<Null>>)])])]))
    @@ ("{\"result\":{\"data\":{\"sources\":[{\"title\":\"B\",\"url\":\"u\"},{\"title\":\"A\"}]}}}" :>
            Obj([result |-> Obj([data |-> Obj([sources |-> Arr(<<DocB, DocA>>)])])]))

\* bodies of inbound events
BodyTexts ==
       ("{\"actividad\":\"A\",\"message\":\"m\",\"has_rfc\":false,\"query\":\"q\",\"user_id\":\"u\",\"business_type\":\"b\",\"current_status\":\"s\"}" :>
            Obj([actividad |-> Str("A"), message |-> Str("m"), has_rfc |-> Bool(FALSE),
                 query |-> Str("q"), user_id |-> Str("u"), business_type |-> Str("b"),
                 current_status |-> Str("s")]))

JsonTexts == ExtractionTexts @@ WireTexts @@ BodyTexts

\* texts that are not JSON
PlainTexts == {"hola", "{\"data\":"}

\* JSON.parse(text) for a string value
JSON_parse(v) ==
    IF v.t = "str" /\ v.s \in DOMAIN JsonTexts
    THEN Ret(JsonTexts[v.s])
    ELSE Throw("SyntaxError")

(***************************************************************************)
(* calculateSimpleRisk                                                     *)
(***************************************************************************)
ComplianceKeys == <<"has_rfc", "has_efirma", "emite_cfdi", "declara_mensual">>

IssueText ==
    [has_rfc |-> "RFC no registrado",
     has_efirma |-> "e.firma no vigente",
     emite_cfdi |-> "No emite CFDI",
     declara_mensual |-> "No presenta declaraciones mensuales"]

RECURSIVE RiskDetails(_, _)
\* the four `if (!profile.x) { penalties += 1; details.push(...) }` in order,
\* from the i-th on
RiskDetails(profile, i) ==
    IF i > Len(ComplianceKeys) THEN <<>>
    ELSE (IF Truthy(Get(profile, ComplianceKeys[i]))
          THEN <<>>
          ELSE <<IssueText[ComplianceKeys[i]]>>)
         \o RiskDetails(profile, i + 1)

RiskLevelMut(penalties) ==
    IF penalties >= 3 THEN "Rojo"
    ELSE IF penalties = 1 THEN "Amarillo"
    ELSE "Verde"

RiskLevel(penalties) ==
    IF penalties >= 2 THEN "Rojo"
    ELSE IF penalties = 1 THEN "Amarillo"
    ELSE "Verde"

RiskMessage(penalties) ==
    IF penalties >= 2 THEN "Alto riesgo fiscal, acción inmediata requerida"
    ELSE IF penalties = 1 THEN "Cumplimiento parcial, requiere atención"
    ELSE "Cumplimiento fiscal óptimo"

Max(a, b) == IF a >= b THEN a ELSE b

calculateSimpleRisk(profile) ==
    LET details == RiskDetails(profile, 1)
        penalties == Len(details)
    IN  [score |-> Max(0, 100 - (penalties * 25)),
         level |-> RiskLevel(penalties),
         message |-> RiskMessage(penalties),
         details |-> [k \in {"has_rfc", "has_efirma", "emite_cfdi", "declara_mensual"} |->
                        Or(Get(profile, k), Bool(FALSE))],
         penalties |-> penalties,
         issues |-> details]

(***************************************************************************)
(* extractMcpResponse                                                      *)
(***************************************************************************)
Sentinel == Str("Error: No se pudo extraer la respuesta del servidor MCP")

RECURSIVE FindText(_, _)
\* result.content.find(c => c.type === 'text') from index i on: the first
\* element whose type is 'text', undefined when there is none, a TypeError
\* when the scan meets a null element first
FindText(a, i) ==
    IF i > Len(a) THEN Ret(Undef)
    ELSE IF IsNullish(a[i]) THEN Throw("TypeError")
    ELSE IF Get(a[i], "type") = Str("text") THEN Ret(a[i])
    ELSE FindText(a, i + 1)

\* the body of the try block of the content branch (lines 690-712); parsed is
\* what JSON.parse returned
ContentFieldsMut(parsed, text) ==
    IF IsNullish(parsed) THEN Throw("TypeError")
    ELSE LET data == Get(parsed, "data") IN
         IF Truthy(data) /\ Truthy(Get(data, "response"))
         THEN Ret(Get(data, "response"))
         ELSE IF Truthy(data) /\ Truthy(Get(data, "recommendation"))
         THEN Ret(Get(data, "recommendation"))
         ELSE IF Truthy(Get(parsed, "recommendation"))
         THEN Ret(Get(parsed, "recommendation"))
         ELSE Ret(text)

ContentFields(parsed, text) ==
    IF IsNullish(parsed) THEN Throw("TypeError")
    ELSE LET data == Get(parsed, "data") IN
         IF Truthy(data) /\ Truthy(Get(data, "recommendation"))
         THEN Ret(Get(data, "recommendation"))
         ELSE IF Truthy(data) /\ Truthy(Get(data, "response"))
         THEN Ret(Get(data, "response"))
         ELSE IF Truthy(Get(parsed, "recommendation"))
         THEN Ret(Get(parsed, "recommendation"))
         ELSE Ret(text)

\* try { parsed = JSON.parse(text); ... } catch (e) { return text } (689-718)
ContentText(text) ==
    LET p == JSON_parse(text) IN
    IF ~p.ok THEN Ret(text)
    ELSE LET r == ContentFields(p.val, text) IN
         IF r.ok THEN r ELSE Ret(text)

\* the body of the try block of the string branch (lines 745-751): a value to
\* return, or undefined when the block falls through to `return result`
StringFields(parsed) ==
    IF IsNullish(parsed) THEN Throw("TypeError")
    ELSE LET data == Get(parsed, "data") IN
         IF Truthy(data) /\ Truthy(Get(data, "recommendation"))
         THEN Ret(Get(data, "recommendation"))
         ELSE IF Truthy(data) /\ Truthy(Get(data, "response"))
         THEN Ret(Get(data, "response"))
         ELSE Ret(Undef)

\* lines 722-760, for a result that is not null or undefined
UnwrappedMut(result) ==
    LET data == Get(result, "data") IN
    IF Truthy(data) /\ Truthy(Get(data, "response"))
    THEN Ret(Get(data, "response"))
    ELSE IF Truthy(data) /\ Truthy(Get(data, "recommendation"))
    THEN Ret(Get(data, "recommendation"))
    ELSE IF Truthy(data) /\ IsString(data)
    THEN Ret(data)
    ELSE IF IsString(result)
    THEN LET p == JSON_parse(result)
             r == IF p.ok THEN StringFields(p.val) ELSE Throw("SyntaxError")
         IN  IF r.ok /\ r.val # Undef THEN r ELSE Ret(result)
    ELSE Ret(Sentinel)

DataRecommendationMut(result) == Get(result, "recommendation")

\* result.data && result.data.recommendation (line 723)
DataRecommendation(result) ==
    LET data == Get(result, "data") IN
    IF Truthy(data) THEN Get(data, "recommendation") ELSE data

Unwrapped(result) ==
    LET data == Get(result, "data") IN
    IF Truthy(DataRecommendation(result))
    THEN Ret(Get(data, "recommendation"))
    ELSE IF Truthy(data) /\ IsString(data)
    THEN Ret(data)
    ELSE IF Truthy(data) /\ Truthy(Get(data, "response"))
    THEN Ret(Get(data, "response"))
    ELSE IF IsString(result)
    THEN LET p == JSON_parse(result)
             r == IF p.ok THEN StringFields(p.val) ELSE Throw("SyntaxError")
         IN  IF r.ok /\ r.val # Undef THEN r ELSE Ret(result)
    ELSE Ret(Sentinel)

\* `textContent && textContent.text` (lines 685 and 773)
TextOf(textContent) ==
    IF Truthy(textContent) THEN Get(textContent, "text") ELSE textContent

extractMcpResponse(result) ==
    IF IsNullish(result) THEN Throw("TypeError")
    ELSE LET content == Get(result, "content") IN
         IF Truthy(content) /\ IsArray(content)
         THEN LET f == FindText(content.a, 1) IN
              IF ~f.ok THEN f
              ELSE IF Truthy(TextOf(f.val))
                   THEN ContentText(TextOf(f.val))
                   ELSE Unwrapped(result)
         ELSE Unwrapped(result)

(***************************************************************************)
(* extractDocuments                                                        *)
(***************************************************************************)
\* `x && Array.isArray(x)`: the test every candidate location goes through
IsList(x) == Truthy(x) /\ IsArray(x)

\* `o.data && o.data.key && Array.isArray(o.data.key)`
HasDataList(o, key) ==
    LET data == Get(o, "data") IN
    Truthy(data) /\ IsList(Get(data, key))

\* the body of the try block of the content branch (lines 775-799): the list
\* to return, or undefined when the block falls through
WrappedDocuments(parsed) ==
    IF IsNullish(parsed) THEN Throw("TypeError")
    ELSE IF HasDataList(parsed, "sources")
    THEN Ret(Get(Get(parsed, "data"), "sources"))
    ELSE IF HasDataList(parsed, "documents")
    THEN Ret(Get(Get(parsed, "data"), "documents"))
    ELSE IF IsList(Get(parsed, "sources"))
    THEN Ret(Get(parsed, "sources"))
    ELSE IF IsList(Get(parsed, "documents"))
    THEN Ret(Get(parsed, "documents"))
    ELSE Ret(Undef)

UnwrappedDocumentsMut(result) ==
    IF HasDataList(result, "sources")
    THEN Ret(Get(Get(result, "data"), "sources"))
    ELSE IF HasDataList(result, "documents")
    THEN Ret(Get(Get(result, "data"), "documents"))
    ELSE IF IsList(Get(result, "sources"))
    THEN Ret(Get(result, "sources"))
    ELSE Ret(Arr(<<>>))

\* lines 806-819, for a result that is not null or undefined
UnwrappedDocuments(result) ==
    IF HasDataList(result, "sources")
    THEN Ret(Get(Get(result, "data"), "sources"))
    ELSE IF HasDataList(result, "documents")
    THEN Ret(Get(Get(result, "data"), "documents"))
    ELSE Ret(Arr(<<>>))

extractDocuments(result) ==
    IF IsNullish(result) THEN Throw("TypeError")
    ELSE LET content == Get(result, "content") IN
         IF Truthy(content) /\ IsArray(content)
         THEN LET f == FindText(content.a, 1) IN
              IF ~f.ok THEN f
              ELSE IF Truthy(TextOf(f.val))
                   THEN LET p == JSON_parse(TextOf(f.val))
                            r == IF p.ok THEN WrappedDocuments(p.val)
                                 ELSE Throw("SyntaxError")
                        IN  IF r.ok /\ r.val # Undef THEN r
                            ELSE UnwrappedDocuments(result)
                   ELSE UnwrappedDocuments(result)
         ELSE UnwrappedDocuments(result)

(***************************************************************************)
(* The inputs PureSpec draws for the normalisers and the risk scorer.       *)
(***************************************************************************)
Profiles ==
    {Obj(f) : f \in [{"has_rfc", "has_efirma", "emite_cfdi", "declara_mensual"} ->
                        {Bool(TRUE), Bool(FALSE)}]}

\* lists of at most MaxDocs source documents
DocLists == {Arr(l) : l \in UNION {[1..n -> {DocA, DocB}] : n \in 0..MaxDocs}}

TextBlock(text) == Obj(Strip([type |-> Str("text"), text |-> text]))
ImageBlock == Obj([type |-> Str("image"), data |-> Str("b64")])

Texts == {Str(s) : s \in (DOMAIN ExtractionTexts) \cup PlainTexts}

ContentVals ==
    {Undef, Str("c"), Arr(<<>>), Arr(<<ImageBlock>>), Arr(<<Null>>),
     Arr(<<Null, TextBlock(Str("hola"))>>),
     Arr(<<Str("x"), TextBlock(Str("hola"))>>),
     Arr(<<TextBlock(Undef)>>), Arr(<<TextBlock(Str(""))>>),
     Arr(<<TextBlock(Undef), TextBlock(Str("hola"))>>)}
    \cup {Arr(<<TextBlock(t)>>) : t \in Texts}
    \cup {Arr(<<ImageBlock, TextBlock(t)>>) : t \in Texts}

DataVals ==
    {Undef, Null, Str("D"), Str(""), Num(7)}
    \cup {Obj(Strip([recommendation |-> r, response |-> p, sources |-> s, documents |-> d])) :
            r \in {Undef, Str("X"), Str("")},
            p \in {Undef, Str("R")},
            s \in {Undef, Str("none")} \cup DocLists,
            d \in {Undef} \cup DocLists}

ObjectResults ==
    {Obj(Strip([content |-> c, data |-> d, recommendation |-> r, sources |-> s,
                documents |-> o])) :
        c \in ContentVals, d \in DataVals, r \in {Undef, Str("Z")},
        s \in {Undef, Arr(<<DocC>>)}, o \in {Undef, Arr(<<DocD>>)}}

\* the values an upstream call can hand to the normalisers
Results ==
    ObjectResults \cup Texts
    \cup {Null, Num(5), Bool(TRUE), Str(""), Arr(<<>>), Arr(<<DocA>>)}


(***************************************************************************)
(* Upstream client: makeHttpRequest, callMcpTool, callMcpAlternative,      *)
(* callMcpPrompt, callMcpAlternativePrompt.                                *)
(***************************************************************************)
\* a response on the wire: status, whether the content type includes
\* text/event-stream, and the body as its lines; a line is a prefix ("data: ",
\* "event: " or none) followed by the rest of the line
EventLine == [pre |-> "event: ", rest |-> "message"]

WireBodies ==
    (DOMAIN WireTexts)
    \cup {"null", "hola", "{\"data\":{\"recommendation\":\"Y\",\"sources\":[{\"title\":\"A\"}]}}"}

LastLines ==
    {EventLine} \cup {[pre |-> q, rest |-> b] : q \in {"", "data: "}, b \in WireBodies}

\* bodies of at most MaxLines lines: event lines, then one more line
WireData ==
    {[i \in 1..n |-> IF i < n THEN EventLine ELSE l] : n \in 1..MaxLines, l \in LastLines}

WireResponses == [statusCode : {200, 400}, sse : BOOLEAN, data : WireData]

TransportErrors == {"connect ECONNREFUSED"}

RECURSIVE RawText(_, _)
\* the body text: the lines from the i-th on joined by newlines
RawText(data, i) ==
    IF i > Len(data) THEN ""
    ELSE data[i].pre \o data[i].rest
         \o (IF i < Len(data) THEN "\n" \o RawText(data, i + 1) ELSE "")

RECURSIVE FirstDataLine(_, _)
\* the loop of lines 49-54: the first line that starts with "data: ", without
\* the prefix; "" when there is none
FirstDataLine(data, i) ==
    IF i > Len(data) THEN ""
    ELSE IF data[i].pre = "data: " THEN data[i].rest
    ELSE FirstDataLine(data, i + 1)

makeHttpRequestMut(res) ==
    LET whole == Str(RawText(res.data, 1))
        jsonData == FirstDataLine(res.data, 1)
        p == IF jsonData # "" THEN JSON_parse(Str(jsonData)) ELSE JSON_parse(whole)
    IN  [statusCode |-> res.statusCode, body |-> IF p.ok THEN p.val ELSE whole]

\* res.on('end') of makeHttpRequest (lines 40-81): what the promise resolves to
makeHttpRequest(res) ==
    LET whole == Str(RawText(res.data, 1))
        jsonData == IF res.sse THEN FirstDataLine(res.data, 1) ELSE ""
        p == IF jsonData # "" THEN JSON_parse(Str(jsonData)) ELSE JSON_parse(whole)
    IN  [statusCode |-> res.statusCode, body |-> IF p.ok THEN p.val ELSE whole]

\* the message of an Error, as the parts the code concatenates; a part that is
\* not a string stands for JSON.stringify of that value
Msg(parts) == [t |-> "msg", parts |-> parts]

TypeErrorMsg == Msg(<<Str("TypeError: Cannot read properties of null")>>)

\* the catch of callMcpTool (lines 144-147)
WrapToolErrorMut(message) == Msg(<<Str("Error conectando con MCP: ")>>)

WrapToolError(message) ==
    Msg(<<Str("Error conectando con MCP: ")>> \o message.parts)

InvalidRequest == -32600

\* `response.body.error && response.body.error.code === -32600` (line 137),
\* for a body that is not null
IsFallbackTriggerMut(body) == Truthy(Get(body, "error"))

IsFallbackTrigger(body) ==
    LET error == Get(body, "error") IN
    Truthy(error) /\ Get(error, "code") = Num(InvalidRequest)

\* callMcpTool after the primary request settled with p (lines 115-147):
\* return a value, throw, or go on to callMcpAlternative
ToolAfterPrimary(p) ==
    IF ~p.ok
    THEN [do |-> "throw", msg |-> WrapToolError(Msg(<<Str(p.err)>>))]
    ELSE LET body == p.val.body IN
         IF IsNullish(body)
         THEN [do |-> "throw", msg |-> WrapToolError(TypeErrorMsg)]
         ELSE IF p.val.statusCode = 200
         THEN [do |-> "return",
               val |-> IF Truthy(Get(body, "result")) THEN Get(body, "result") ELSE body]
         ELSE IF IsFallbackTrigger(body)
         THEN [do |-> "fallback"]
         ELSE [do |-> "throw",
               msg |-> WrapToolError(Msg(<<Str("Error MCP: "), body>>))]

\* callMcpAlternative after its request settled with f (lines 159-172), and the
\* catch of callMcpTool around it
ToolAfterFallback(f) ==
    IF ~f.ok
    THEN [do |-> "throw", msg |-> WrapToolError(Msg(<<Str(f.err)>>))]
    ELSE IF f.val.statusCode = 200
    THEN [do |-> "return", val |-> f.val.body]
    ELSE [do |-> "throw",
          msg |-> WrapToolError(Msg(<<Str("Error en método alternativo: "), f.val.body>>))]

\* callMcpPrompt after the primary request settled with p (lines 193-213):
\* return the result, or call callMcpAlternativePrompt from the try block
\* ("fallback") or from the catch block ("retry")
PromptAfterPrimary(p) ==
    IF ~p.ok THEN [do |-> "retry"]
    ELSE IF p.val.statusCode = 200
    THEN (IF IsNullish(p.val.body) THEN [do |-> "retry"]
          ELSE IF Truthy(Get(p.val.body, "result"))
          THEN [do |-> "return", val |-> Get(p.val.body, "result")]
          ELSE [do |-> "fallback"])
    ELSE [do |-> "fallback"]

\* callMcpAlternativePrompt after its request settled with f (lines 222-231)
AlternativePrompt(f) ==
    IF ~f.ok THEN [do |-> "throw", msg |-> Msg(<<Str(f.err)>>)]
    ELSE IF f.val.statusCode = 200
    THEN [do |-> "return", val |-> f.val.body]
    ELSE [do |-> "throw",
          msg |-> Msg(<<Str("Error en método alternativo (prompt): "), f.val.body>>)]

\* the call made from the try block (line 208): a throw lands in the catch of
\* callMcpPrompt, which calls callMcpAlternativePrompt again (line 212)
PromptAfterFallback(f) ==
    LET r == AlternativePrompt(f) IN
    IF r.do = "throw" THEN [do |-> "retry"] ELSE r

\* the call made from the catch block (line 212): a throw leaves callMcpPrompt
PromptAfterRetry(f) == AlternativePrompt(f)

(***************************************************************************)
(* PureSpec: the pure functions applied to inputs drawn from bounded sets. *)
(***************************************************************************)
\* wire responses for the decoder alone: bodies of at most MaxLines lines, any
\* of them a data line, a data line with nothing behind the marker included
DecodeLines == LastLines \cup {[pre |-> "data: ", rest |-> ""]}

DecodeInputs ==
    [statusCode : {200, 400}, sse : BOOLEAN,
     data : UNION {[1..n -> DecodeLines] : n \in 1..MaxLines}]

PureInit ==
    /\ pc = "pure"
    /\ event = Undef
    /\ call = Undef
    /\ requests = <<>>
    /\ primary = Undef
    /\ last = Undef
    /\ outcome = Undef
    /\ response = Undef
    /\ out = Undef
    /\ \/ fn = "calculateSimpleRisk" /\ arg \in Profiles
       \/ fn \in {"extractMcpResponse", "extractDocuments"} /\ arg \in Results
       \/ fn = "makeHttpRequest" /\ arg \in DecodeInputs

ApplyRisk ==
    /\ fn = "calculateSimpleRisk" /\ out = Undef
    /\ out' = Ret(calculateSimpleRisk(arg))
    /\ UNCHANGED <<fn, arg>> /\ UNCHANGED flowVars

ApplyExtractMcpResponse ==
    /\ fn = "extractMcpResponse" /\ out = Undef
    /\ out' = extractMcpResponse(arg)
    /\ UNCHANGED <<fn, arg>> /\ UNCHANGED flowVars

ApplyExtractDocuments ==
    /\ fn = "extractDocuments" /\ out = Undef
    /\ out' = extractDocuments(arg)
    /\ UNCHANGED <<fn, arg>> /\ UNCHANGED flowVars

ApplyMakeHttpRequest ==
    /\ fn = "makeHttpRequest" /\ out = Undef
    /\ out' = Ret(makeHttpRequest(arg))
    /\ UNCHANGED <<fn, arg>> /\ UNCHANGED flowVars

PureNext ==
    \/ ApplyRisk
    \/ ApplyExtractMcpResponse
    \/ ApplyExtractDocuments
    \/ ApplyMakeHttpRequest

PureSpec == PureInit /\ [][PureNext]_vars

(***************************************************************************)
(* Router and adapter (src/index.js).                                      *)
(***************************************************************************)
\* path.replace(/\/$/, ''), on the paths of the model
StripTrailingSlash(path) ==
    CASE path = "/" -> ""
      [] path = "/chat/" -> "/chat"
      [] OTHER -> path

\* the needles of getEndpoint that each (normalised) path includes
PathIncludes ==
       ("" :> {})
    @@ ("/chat" :> {"/chat"})
    @@ ("/fiscal-advice" :> {"/fiscal-advice"})
    @@ ("/fiscal-consultation" :> {"/fiscal-consultation"})
    @@ ("/health" :> {"/health"})
    @@ ("/info" :> {})
    @@ ("/nope" :> {})
    @@ ("/places" :> {"/places"})
    @@ ("/recommendation" :> {"/recommendation"})
    @@ ("/risk-analysis" :> {"/risk-analysis", "/risk"})
    @@ ("/risk-assessment" :> {"/risk", "/risk-assessment"})
    @@ ("/search" :> {"/search"})
    @@ ("/user-context" :> {"/user-context"})

getEndpoint(ev) ==
    LET requestContext == Get(ev, "requestContext")
        resourcePath == IF IsNullish(requestContext) THEN Undef
                        ELSE Get(requestContext, "resourcePath")
        raw == Or(Or(Or(Get(ev, "path"), Get(ev, "rawPath")), resourcePath), Str(""))
        path == StripTrailingSlash(raw.s)
        inc(n) == n \in PathIncludes[path]
    IN  CASE inc("/recommendation") -> "recommendation"
          [] inc("/fiscal-advice") \/ inc("/fiscaladvice") -> "fiscal-advice"
          [] inc("/chat") -> "chat"
          [] inc("/risk-analysis") \/ inc("/risk") -> "risk-analysis"
          [] inc("/search") -> "search"
          [] inc("/places") \/ inc("/map") \/ inc("/places-search") -> "places"
          [] inc("/user-context") \/ inc("/context") -> "user-context"
          [] inc("/fiscal-consultation") -> "fiscal-consultation"
          [] inc("/risk-assessment") -> "risk-assessment"
          [] inc("/health") -> "health"
          [] path = "/" \/ path = "" \/ path = "/info" -> "info"
          [] OTHER -> "unknown"

\* { ...v }: the own properties of an object; of the other values of the
\* model (null, numbers, booleans, undefined), none
Spread(v) == IF v.t = "obj" THEN v.o ELSE <<>>

\* { ...a, ...b }
Merge(a, b) ==
    [k \in (DOMAIN a) \cup (DOMAIN b) |-> IF k \in DOMAIN b THEN b[k] ELSE a[k]]

extractParams(ev) ==
    LET qs == Get(ev, "queryStringParameters")
        evBody == Get(ev, "body")
        p1 == IF Truthy(qs) THEN Spread(qs) ELSE <<>>
        parsed == IF IsString(evBody) THEN JSON_parse(evBody) ELSE Ret(evBody)
    IN  IF Truthy(evBody) /\ ~parsed.ok
        THEN Throw(Msg(<<Str("SyntaxError: Unexpected token in JSON")>>))
        ELSE LET p2 == IF Truthy(evBody) THEN Merge(p1, Spread(parsed.val)) ELSE p1 IN
             IF ~Truthy(qs) /\ ~Truthy(evBody) /\ ~Truthy(Get(ev, "httpMethod"))
             THEN Ret(Obj(Spread(ev)))
             ELSE Ret(Obj(p2))

\* createResponse: the status and the body that is serialised
createResponse(statusCode, body) == [statusCode |-> statusCode, body |-> body]

\* an object literal of the named properties of params
Pick(params, keys) == [k \in keys |-> Get(params, k)]

(***************************************************************************)
(* Endpoint handlers (src/mcp_bridge.js).                                  *)
(***************************************************************************)
\* per handler: the required parameter, whether its absence is tested with
\* `=== undefined` rather than `!x`, the optional parameters listed in the 400
\* body, the kind of upstream call and the tool or prompt called
Handlers ==
    [recommendation |->
        [required |-> "actividad", strict |-> FALSE, optional |-> Undef,
         kind |-> "tool", name |-> "get_fiscal_advice"],
     fiscal_advice |->
        [required |-> "actividad", strict |-> FALSE,
         optional |-> Arr(<<Str("ingresos_anuales"), Str("estado"), Str("regimen_actual"),
                           Str("tiene_rfc"), Str("contexto_adicional")>>),
         kind |-> "tool", name |-> "get_fiscal_advice"],
     chat |->
        [required |-> "message", strict |-> FALSE,
         optional |-> Arr(<<Str("user_id"), Str("session_id")>>),
         kind |-> "tool", name |-> "chat_with_fiscal_assistant"],
     risk_analysis |->
        [required |-> "has_rfc", strict |-> TRUE,
         optional |-> Arr(<<Str("has_efirma"), Str("emite_cfdi"), Str("declara_mensual"),
                           Str("ingresos_anuales"), Str("actividad"), Str("regimen_fiscal")>>),
         kind |-> "tool", name |-> "analyze_fiscal_risk"],
     search |->
        [required |-> "query", strict |-> FALSE, optional |-> Arr(<<Str("limit")>>),
         kind |-> "tool", name |-> "search_fiscal_documents"],
     places |->
        [required |-> "query", strict |-> FALSE,
         optional |-> Arr(<<Str("lat"), Str("lng"), Str("limit")>>),
         kind |-> "tool", name |-> "search_places"],
     user_context |->
        [required |-> "user_id", strict |-> FALSE, optional |-> Undef,
         kind |-> "tool", name |-> "get_user_fiscal_context"],
     fiscal_consultation |->
        [required |-> "business_type", strict |-> FALSE,
         optional |-> Arr(<<Str("annual_income"), Str("state")>>),
         kind |-> "prompt", name |-> "fiscal_consultation"],
     risk_assessment |->
        [required |-> "current_status", strict |-> FALSE, optional |-> Undef,
         kind |-> "prompt", name |-> "risk_assessment"]]

\* the handler the switch of exports.handler dispatches an endpoint to
HandlerOf ==
    [e \in {"recommendation", "fiscal-advice", "chat", "risk-analysis", "search", "places",
            "user-context", "fiscal-consultation", "risk-assessment"} |->
        CASE e = "fiscal-advice" -> "fiscal_advice"
          [] e = "risk-analysis" -> "risk_analysis"
          [] e = "user-context" -> "user_context"
          [] e = "fiscal-consultation" -> "fiscal_consultation"
          [] e = "risk-assessment" -> "risk_assessment"
          [] OTHER -> e]

\* `const profile = params.profile || params` (line 836); the other handlers
\* read params itself
ProfileOf(h, params) ==
    IF h = "recommendation" THEN Or(Get(params, "profile"), params) ELSE params

MissingRequiredMut(h, params) == FALSE

\* the parameter test that opens each handler
MissingRequired(h, params) ==
    LET v == Get(ProfileOf(h, params), Handlers[h].required) IN
    IF Handlers[h].strict THEN v = Undef ELSE ~Truthy(v)

BadRequest(h) ==
    createResponse(400,
        Obj(Strip([error |-> Msg(<<Str("Falta el parámetro "), Str(Handlers[h].required)>>),
                   required |-> Arr(<<Str(Handlers[h].required)>>),
                   optional |-> Handlers[h].optional])))

\* Number(v) of the places handler, on the values of the model
ToNumber(v) == IF v.t = "num" THEN v ELSE [t |-> "nan"]

\* the arguments each handler passes to callMcpTool or callMcpPrompt
CallArgs(h, params) ==
    LET q == ProfileOf(h, params)
        wrap(f) == Obj([request |-> Obj(Strip(f))])
    IN  CASE h = "recommendation" ->
              wrap(Pick(q, {"actividad", "ingresos_anuales", "estado", "regimen_actual",
                            "contexto_adicional"})
                   @@ [tiene_rfc |-> Get(q, "has_rfc")])
          [] h = "fiscal_advice" ->
              wrap(Pick(q, {"actividad", "ingresos_anuales", "estado", "regimen_actual",
                            "tiene_rfc", "contexto_adicional"}))
          [] h = "chat" ->
              wrap([user_id |-> Or(Get(q, "user_id"), Str("lambda-user"))]
                   @@ Pick(q, {"message", "session_id"}))
          [] h = "risk_analysis" ->
              wrap(Pick(q, {"has_rfc", "has_efirma", "emite_cfdi", "declara_mensual",
                            "ingresos_anuales", "actividad", "regimen_fiscal"}))
          [] h = "search" ->
              wrap([limit |-> Or(Get(q, "limit"), Num(5))] @@ Pick(q, {"query"}))
          [] h = "places" ->
              wrap([limit |-> Or(Get(q, "limit"), Num(5)),
                    lat |-> IF Get(q, "lat") # Undef THEN ToNumber(Get(q, "lat")) ELSE Undef,
                    lng |-> IF Get(q, "lng") # Undef THEN ToNumber(Get(q, "lng")) ELSE Undef]
                   @@ Pick(q, {"query"}))
          [] h = "user_context" -> wrap(Pick(q, {"user_id"}))
          [] h = "fiscal_consultation" ->
              Obj(Strip(Pick(q, {"business_type", "annual_income", "state"})))
          [] h = "risk_assessment" -> Obj(Strip(Pick(q, {"current_status"})))

\* the JSON-RPC request of callMcpTool (lines 104-122) and callMcpPrompt
\* (lines 179-200)
PrimaryRequest(kind, name, args) ==
    [url |-> "/mcp", method |-> "POST", accept |-> "application/json, text/event-stream",
     body |-> Obj([jsonrpc |-> Str("2.0"),
                   method |-> Str(IF kind = "tool" THEN "tools/call" ELSE "prompts/get"),
                   params |-> Obj([name |-> Str(name), arguments |-> args])])]

\* the REST request of callMcpAlternative (lines 157-166) and
\* callMcpAlternativePrompt (lines 220-225)
FallbackRequest(kind, name, args) ==
    IF kind = "tool"
    THEN [url |-> "/tools/" \o name \o "/call", method |-> "POST",
          accept |-> "application/json", body |-> args]
    ELSE [url |-> "/prompts/" \o name, method |-> "POST",
          accept |-> "application/json, text/event-stream", body |-> args]

\* a decimal number m / 10^e
Dec(m, e) == [t |-> "dec", m |-> m, e |-> e]

\* the try/catch of the seven tool handlers and the two prompt handlers around
\* the upstream call (for instance lines 260-290); step is what the call did
GenericResponse(step) ==
    IF step.do = "return"
    THEN createResponse(200, Obj(Strip([success |-> Bool(TRUE), data |-> step.val,
                                        source |-> Str("mcp_server")])))
    ELSE createResponse(500, Obj([error |-> step.msg]))

\* documents.map(doc => ({...})) (lines 938-943), for a doc that is not null
SourceOf(doc) ==
    Obj([title |-> Or(Get(doc, "title"), Str("Documento fiscal")),
         scope |-> Or(Get(doc, "scope"), Str("General")),
         url |-> Or(Or(Get(doc, "url"), Get(doc, "source_url")), Str("Libro")),
         similarity |-> Or(Get(doc, "similarity"), Dec(8, 1))])

\* the response object built at lines 917-951, or the 500 of the outer catch
\* when documents.map meets a null entry
RecommendationBody(q, risk, recommendation, documents, sourcesCount) ==
    IF \E i \in 1..Len(documents) : IsNullish(documents[i])
    THEN createResponse(500, Obj([error |-> TypeErrorMsg]))
    ELSE createResponse(200,
            Obj([success |-> Bool(TRUE),
                 profile |-> Obj([actividad |-> Get(q, "actividad"),
                                  ingresos_anuales |-> Or(Get(q, "ingresos_anuales"), Num(0)),
                                  empleados |-> Or(Get(q, "empleados"), Num(0)),
                                  metodos_pago |-> Or(Get(q, "metodos_pago"), Arr(<<>>)),
                                  estado |-> Or(Get(q, "estado"), Str("No especificado")),
                                  has_rfc |-> Or(Get(q, "has_rfc"), Bool(FALSE)),
                                  has_efirma |-> Or(Get(q, "has_efirma"), Bool(FALSE)),
                                  emite_cfdi |-> Or(Get(q, "emite_cfdi"), Bool(FALSE)),
                                  declara_mensual |-> Or(Get(q, "declara_mensual"), Bool(FALSE))]),
                 risk |-> Obj([score |-> Num(risk.score), level |-> Str(risk.level),
                               message |-> Str(risk.message),
                               details |-> Obj(risk.details)]),
                 recommendation |-> recommendation,
                 sources |-> Arr([i \in 1..Len(documents) |-> SourceOf(documents[i])]),
                 matches_count |-> Num(sourcesCount)]))

ExtractedMut(step, rec, docs) ==
    IF step.do = "throw"
    THEN [recommendation |-> Msg(<<Str("Error al generar recomendación: ")>> \o step.msg.parts),
          documents |-> <<>>, sourcesCount |-> 0]
    ELSE IF ~rec.ok \/ ~docs.ok
    THEN [recommendation |-> Msg(<<Str("Error al generar recomendación: ")>>
                                 \o TypeErrorMsg.parts),
          documents |-> <<>>, sourcesCount |-> 0]
    ELSE [recommendation |-> rec.val, documents |-> docs.val.a, sourcesCount |-> 0]

\* the inner try/catch of handleRecommendation (lines 874-915): the
\* recommendation, the documents and the sourcesCount it leaves; rec and docs
\* are what extractMcpResponse and extractDocuments did with the upstream
\* result
Extracted(step, rec, docs) ==
    IF step.do = "throw"
    THEN [recommendation |-> Msg(<<Str("Error al generar recomendación: ")>> \o step.msg.parts),
          documents |-> <<>>, sourcesCount |-> 0]
    ELSE IF ~rec.ok \/ ~docs.ok
    THEN [recommendation |-> Msg(<<Str("Error al generar recomendación: ")>>
                                 \o TypeErrorMsg.parts),
          documents |-> <<>>, sourcesCount |-> 0]
    ELSE [recommendation |-> rec.val, documents |-> docs.val.a,
          sourcesCount |-> Len(docs.val.a)]

\* the risk of lines 863-868
ProfileRisk(q) ==
    calculateSimpleRisk(
        Obj([k \in {"has_rfc", "has_efirma", "emite_cfdi", "declara_mensual"} |->
                Or(Get(q, k), Bool(FALSE))]))

RecommendationOf(q, x) ==
    RecommendationBody(q, ProfileRisk(q), x.recommendation, x.documents, x.sourcesCount)

\* handleRecommendation from the upstream call on (lines 861-963); q is the
\* profile, step what callMcpTool did
RecommendationResponse(q, step) ==
    RecommendationOf(q,
        Extracted(step,
                  IF step.do = "return" THEN extractMcpResponse(step.val) ELSE Throw("upstream"),
                  IF step.do = "return" THEN extractDocuments(step.val) ELSE Throw("upstream")))

\* the handler's answer once the upstream call returned or threw
Finish(c, step) ==
    IF c.handler = "recommendation"
    THEN RecommendationResponse(c.profile, step)
    ELSE GenericResponse(step)

(***************************************************************************)
(* Spec: one invocation of exports.handler.                                *)
(***************************************************************************)
Paths == {"/recommendation", "/fiscal-advice", "/chat", "/risk-analysis", "/search",
          "/places", "/user-context", "/fiscal-consultation", "/risk-assessment",
          "/health", "/info", "/", "/nope", "/chat/"}

FullBodyText ==
    "{\"actividad\":\"A\",\"message\":\"m\",\"has_rfc\":false,\"query\":\"q\",\"user_id\":\"u\",\"business_type\":\"b\",\"current_status\":\"s\"}"

QueryParams ==
    Obj([actividad |-> Str("A"), message |-> Str("m"), has_rfc |-> Str("false"),
         query |-> Str("q"), user_id |-> Str("u"), business_type |-> Str("b"),
         current_status |-> Str("s"), declara_mensual |-> Str("true")])

ProfileBody ==
    Obj([profile |-> Obj([actividad |-> Str("A"), has_rfc |-> Bool(TRUE),
                          has_efirma |-> Bool(TRUE), estado |-> Str("CDMX")])])

\* how a gateway event carries its parameters: query string and body
Carriers ==
    {<<Undef, Undef>>, <<QueryParams, Undef>>, <<Undef, Str(FullBodyText)>>,
     <<Undef, Str("{bad")>>, <<Undef, ProfileBody>>, <<QueryParams, ProfileBody>>}

\* gateway events, CORS preflights, and direct invocations whose event is the
\* parameter map
Events ==
    {Obj(Strip([path |-> pth, httpMethod |-> Str("POST"),
                queryStringParameters |-> c[1], body |-> c[2]])) :
        pth \in {Undef} \cup {Str(x) : x \in Paths}, c \in Carriers}
    \cup {Obj([path |-> Str(x), httpMethod |-> Str("OPTIONS")]) : x \in Paths}
    \cup {Obj(Merge([path |-> Str(x)], JsonTexts[FullBodyText].o)) : x \in Paths}
    \cup {Obj([path |-> Str(x)]) : x \in Paths}

Init ==
    /\ pc = "idle"
    /\ event = Undef
    /\ call = Undef
    /\ requests = <<>>
    /\ primary = Undef
    /\ last = Undef
    /\ outcome = Undef
    /\ response = Undef
    /\ fn = "none"
    /\ arg = Undef
    /\ out = Undef

\* exports.handler up to its first outbound request, or to its response when
\* it makes none (index.js lines 73-325, and the head of each handler)
Invoke(ev) ==
    /\ pc = "idle"
    /\ event' = ev
    /\ LET requestContext == Get(ev, "requestContext")
           http == IF IsNullish(requestContext) THEN Undef ELSE Get(requestContext, "http")
           httpMethod == IF IsNullish(http) THEN Undef ELSE Get(http, "method")
           endpoint == getEndpoint(ev)
           params == extractParams(ev)
           NoCall(resp) ==
               /\ response' = resp
               /\ pc' = "done"
               /\ UNCHANGED <<call, requests>>
       IN  IF Get(ev, "httpMethod") = Str("OPTIONS") \/ httpMethod = Str("OPTIONS")
           THEN NoCall(createResponse(200, Obj([message |-> Str("OK")])))
           ELSE IF ~params.ok
           THEN NoCall(createResponse(500, Obj([error |-> params.err])))
           ELSE IF endpoint = "health"
           THEN NoCall(createResponse(200, Obj([status |-> Str("healthy"),
                                                version |-> Str("2.0.0")])))
           ELSE IF endpoint = "info"
           THEN NoCall(createResponse(200, Obj([service |-> Str("FiscAI Lambda - MCP Bridge"),
                                                version |-> Str("2.0.0")])))
           ELSE IF endpoint = "unknown"
           THEN NoCall(createResponse(404,
                    Obj([error |-> Str("Endpoint no encontrado"),
                         endpoint_requested |-> Str(endpoint),
                         available_endpoints |->
                            Arr(<<Str("/health"), Str("/recommendation (Combined)"),
                                  Str("/fiscal-advice"), Str("/chat"), Str("/risk-analysis"),
                                  Str("/search"), Str("/user-context"),
                                  Str("/fiscal-consultation"), Str("/risk-assessment")>>)])))
           ELSE LET h == HandlerOf[endpoint] IN
                IF MissingRequired(h, params.val)
                THEN NoCall(BadRequest(h))
                ELSE LET args == CallArgs(h, params.val) IN
                     /\ call' = [handler |-> h, kind |-> Handlers[h].kind,
                                 name |-> Handlers[h].name, args |-> args,
                                 profile |-> ProfileOf(h, params.val)]
                     /\ requests' = <<PrimaryRequest(Handlers[h].kind, Handlers[h].name, args)>>
                     /\ pc' = "primary"
                     /\ UNCHANGED response
    /\ UNCHANGED <<primary, last, outcome>>
    /\ UNCHANGED pureVars

\* what the upstream call does once the request it awaits at pc settled with r
StepOf(r) ==
    IF call.kind = "tool"
    THEN (IF pc = "primary" THEN ToolAfterPrimary(r) ELSE ToolAfterFallback(r))
    ELSE (CASE pc = "primary" -> PromptAfterPrimary(r)
            [] pc = "fallback" -> PromptAfterFallback(r)
            [] pc = "retry" -> PromptAfterRetry(r))

\* the request awaited at pc settles with r: the upstream call issues its next
\* request, or ends and the handler answers
Settle(r) ==
    \E step \in {StepOf(r)} :
        /\ primary' = IF pc = "primary" THEN r ELSE primary
        /\ last' = IF pc = "primary" THEN last ELSE r
        /\ IF step.do \in {"fallback", "retry"}
           THEN /\ requests' = Append(requests, FallbackRequest(call.kind, call.name, call.args))
                /\ pc' = step.do
                /\ UNCHANGED <<outcome, response>>
           ELSE /\ outcome' = step
                /\ response' = Finish(call, step)
                /\ pc' = "done"
                /\ UNCHANGED requests
        /\ UNCHANGED <<event, call>>
        /\ UNCHANGED pureVars

PrimaryResponds(res) == pc = "primary" /\ Settle(Ret(makeHttpRequest(res)))
PrimaryFails(e) == pc = "primary" /\ Settle(Throw(e))
FallbackResponds(res) == pc = "fallback" /\ Settle(Ret(makeHttpRequest(res)))
FallbackFails(e) == pc = "fallback" /\ Settle(Throw(e))
RetryResponds(res) == pc = "retry" /\ Settle(Ret(makeHttpRequest(res)))
RetryFails(e) == pc = "retry" /\ Settle(Throw(e))

Next ==
    \/ \E ev \in Events : Invoke(ev)
    \/ \E res \in WireResponses : PrimaryResponds(res)
    \/ \E e \in TransportErrors : PrimaryFails(e)
    \/ \E res \in WireResponses : FallbackResponds(res)
    \/ \E e \in TransportErrors : FallbackFails(e)
    \/ \E res \in WireResponses : RetryResponds(res)
    \/ \E e \in TransportErrors : RetryFails(e)

Spec == Init /\ [][Next]_vars

(***************************************************************************)
(* Properties of the upstream calls (checked under Spec).                  *)
(***************************************************************************)
\* the primary response carried a JSON-RPC error with code -32600
CarriesInvalidRequest(p) ==
    p.ok /\ Get(Get(p.val.body, "error"), "code") = Num(-32600)

\* the request settled with a transport failure or a status other than 200
Failed(r) == ~r.ok \/ r.val.statusCode # 200

ToolCallEnded == pc = "done" /\ call # Undef /\ call.kind = "tool"

IsRestFallback(req) == req.url = "/tools/" \o call.name \o "/call"

\* C1: in a tool call, whenever the primary response carries a JSON-RPC error
\* with code -32600, exactly one REST fallback request to the tool's path has
\* been issued by the time the call ends.
C1_OneFallbackPerInvalidRequest ==
    (ToolCallEnded /\ CarriesInvalidRequest(primary)) =>
        Cardinality({i \in 1..Len(requests) : IsRestFallback(requests[i])}) = 1

\* C2: an invocation issues at most two outbound requests, the primary and at
\* most one fallback.
C2_AtMostTwoRequests == Len(requests) <= 2

\* the primary request failed without the fallback trigger: a transport
\* failure, or a status other than 200 whose body does not carry code -32600
PrimaryFailedWithoutTrigger ==
    primary # Undef /\ Failed(primary) /\ ~CarriesInvalidRequest(primary)

ErrorAndNoFurtherRequest ==
    pc = "done" /\ Len(requests) = 1 /\ outcome.do = "throw"

C4_ErrorReflectsFallback ==
    (ToolCallEnded /\ Len(requests) = 2 /\ Failed(last)) =>
        /\ outcome.do = "throw"
        /\ outcome.msg.parts[Len(outcome.msg.parts)] =
              (IF last.ok THEN last.val.body ELSE Str(last.err))
        /\ last.ok => outcome.msg.parts[Len(outcome.msg.parts) - 1] =
                          Str("Error en método alternativo: ")

C4_Witness ==
    /\ ToolCallEnded /\ Len(requests) = 2
    /\ last.ok /\ last.val.statusCode = 400
    /\ last.val.body = Str("hola")
    /\ primary.val.body # last.val.body
    /\ outcome.do = "throw"
    /\ outcome.msg = Msg(<<Str("Error conectando con MCP: "),
                           Str("Error en método alternativo: "), Str("hola")>>)

(***************************************************************************)
(* Properties of the pure functions (checked under PureSpec, except C9).   *)
(***************************************************************************)
Applied(f) == fn = f /\ out # Undef

\* C5: for the 16 combinations of the four compliance booleans: penalties is
\* the number of false inputs, score is max(0, 100 - 25*penalties), level is
\* Verde for 0, Amarillo for 1 and Rojo for 2 or more penalties, and issues
\* holds one entry per false input in the order tax ID, signature, invoicing,
\* monthly filing.
C5_RiskTable ==
    Applied("calculateSimpleRisk") =>
        LET in(k) == arg.o[k].b
            false == {k \in DOMAIN arg.o : ~in(k)}
            n == Cardinality(false)
            r == out.val
        IN  /\ r.penalties = n
            /\ r.score = (CASE n = 0 -> 100 [] n = 1 -> 75 [] n = 2 -> 50
                            [] n = 3 -> 25 [] n = 4 -> 0)
            /\ r.level = (CASE n = 0 -> "Verde" [] n = 1 -> "Amarillo" [] n >= 2 -> "Rojo")
            /\ r.issues =
                  SelectSeq(<<"RFC no registrado", "e.firma no vigente", "No emite CFDI",
                              "No presenta declaraciones mensuales">>,
                            LAMBDA t : \E k \in false : IssueText[k] = t)

C5_Witness ==
    /\ Applied("calculateSimpleRisk")
    /\ arg = Obj([has_rfc |-> Bool(TRUE), has_efirma |-> Bool(FALSE),
                  emite_cfdi |-> Bool(TRUE), declara_mensual |-> Bool(FALSE)])
    /\ out.val.score = 50 /\ out.val.level = "Rojo" /\ out.val.penalties = 2
    /\ out.val.issues = <<"e.firma no vigente", "No presenta declaraciones mensuales">>

IsTextBlock(c) == c.t = "obj" /\ Get(c, "type") = Str("text")

ContentOf(r) == IF Get(r, "content").t = "arr" THEN Get(r, "content").a ELSE <<>>

\* the result's content list contains a text-typed block
HasTextBlock(r) == \E i \in 1..Len(ContentOf(r)) : IsTextBlock(ContentOf(r)[i])

\* the first text-typed block of the content list
FirstTextBlock(r) ==
    LET a == ContentOf(r) IN
    a[CHOOSE i \in 1..Len(a) : IsTextBlock(a[i]) /\ \A j \in 1..(i - 1) : ~IsTextBlock(a[j])]

\* the content list, when there is one, holds no null entry
NoNullBlock(r) == \A i \in 1..Len(ContentOf(r)) : ~IsNullish(ContentOf(r)[i])

RECURSIVE FirstPresent(_, _)
\* the first present (truthy) value of the candidates, else the default
FirstPresent(candidates, default) ==
    IF candidates = <<>> THEN default
    ELSE IF Truthy(Head(candidates)) THEN Head(candidates)
    ELSE FirstPresent(Tail(candidates), default)

\* what rule 1 yields for the text of a text block
Rule1(text) ==
    LET p == JSON_parse(text) IN
    IF ~p.ok THEN text
    ELSE FirstPresent(<<Get(Get(p.val, "data"), "recommendation"),
                        Get(Get(p.val, "data"), "response"),
                        Get(p.val, "recommendation")>>, text)

Rule4(result) ==
    LET p == JSON_parse(result) IN
    IF ~p.ok THEN result
    ELSE FirstPresent(<<Get(Get(p.val, "data"), "recommendation"),
                        Get(Get(p.val, "data"), "response")>>, result)

C9_NeverRaises ==
    (pc = "done" /\ call # Undef /\ call.handler = "recommendation"
        /\ outcome.do = "return") =>
        extractMcpResponse(outcome.val).ok

\* the lists at the locations extractDocuments examines, in its order: the
\* four of the parsed content text, then data.sources and data.documents of
\* the result
Locations(r) ==
    LET text == IF HasTextBlock(r) THEN Get(FirstTextBlock(r), "text") ELSE Undef
        p == JSON_parse(text)
        parsed == IF p.ok THEN p.val ELSE Undef
        all == <<Get(Get(parsed, "data"), "sources"), Get(Get(parsed, "data"), "documents"),
                 Get(parsed, "sources"), Get(parsed, "documents"),
                 Get(Get(r, "data"), "sources"), Get(Get(r, "data"), "documents")>>
    IN  SelectSeq(all, IsArray)

\* C10: the first non-empty list in the stated order wins: an empty list at
\* an earlier location never hides a non-empty list at a later one.
C10_FirstNonEmptyWins ==
    (Applied("extractDocuments") /\ out.ok) =>
        LET nonEmpty == SelectSeq(Locations(arg), LAMBDA l : l.a # <<>>) IN
        nonEmpty # <<>> => out.val = Head(nonEmpty)

\* the result carries no content wrapper: it is an object (or another value
\* that is not null) whose content, if any, holds no text-typed block
NoContentWrapper(r) == ~IsNullish(r) /\ ~HasTextBlock(r) /\ NoNullBlock(r)

\* the first list among the candidates, else the empty list
FirstList(candidates) ==
    LET lists == SelectSeq(candidates, IsArray) IN
    IF lists = <<>> THEN Arr(<<>>) ELSE Head(lists)

CallReturned == pc = "done" /\ call # Undef /\ outcome.do = "return"

\* the invocation made an upstream call, and the call threw
CallThrew == pc = "done" /\ call # Undef /\ outcome.do = "throw"

\* C12: on every value the upstream client returns, extractDocuments does
\* not raise; on {data:{sources:[{title:"A"}]}} it returns the one-element
\* list with title "A"; on a value with a list at none of the locations it
\* returns the empty list.
C12_DocumentsTotal ==
    CallReturned =>
        LET d == extractDocuments(outcome.val) IN
        /\ d.ok
        /\ outcome.val = Obj([data |-> Obj([sources |-> Arr(<<DocA>>)])]) =>
              d.val = Arr(<<DocA>>)
        /\ Locations(outcome.val) = <<>> => d.val = Arr(<<>>)

\* C13: in the recommendation endpoint, once the upstream call has returned
\* a result, whatever its shape, the handler answers with status 200.
C13_ShapeNeverAnError ==
    (CallReturned /\ call.handler = "recommendation") => response.statusCode = 200

\* the request whose failure ends the upstream call: the last one issued
Underlying == IF last # Undef THEN last ELSE primary

\* C14: for every endpoint that calls the upstream server, the recommendation
\* endpoint included, a failed upstream call yields status 500 with a body
\* whose error embeds the upstream body or the underlying message, never a
\* status 200.
C14_UpstreamFailureIs500 ==
    (CallThrew /\ Failed(Underlying)) =>
        /\ response.statusCode = 500
        /\ Get(response.body, "error").t = "msg"
        /\ LET parts == Get(response.body, "error").parts IN
           /\ ~Underlying.ok => parts[Len(parts)] = Str(Underlying.err)
           /\ (Underlying.ok /\ ~IsNullish(Underlying.val.body)) =>
                 parts[Len(parts)] = Underlying.val.body

\* the endpoint names that have a handler of their own in mcp_bridge.js, each
\* with the required parameter and the upstream tool or prompt the claims
\* name for it
OwnRequired ==
       ("recommendation" :> "actividad") @@ ("fiscal-advice" :> "actividad")
    @@ ("chat" :> "message") @@ ("risk-analysis" :> "has_rfc")
    @@ ("search" :> "query") @@ ("places" :> "query")
    @@ ("user-context" :> "user_id") @@ ("fiscal-consultation" :> "business_type")
    @@ ("risk-assessment" :> "current_status")

OwnUpstream ==
       ("recommendation" :> "get_fiscal_advice") @@ ("fiscal-advice" :> "get_fiscal_advice")
    @@ ("chat" :> "chat_with_fiscal_assistant") @@ ("risk-analysis" :> "analyze_fiscal_risk")
    @@ ("search" :> "search_fiscal_documents") @@ ("places" :> "search_places")
    @@ ("user-context" :> "get_user_fiscal_context")
    @@ ("fiscal-consultation" :> "fiscal_consultation")
    @@ ("risk-assessment" :> "risk_assessment")

\* the invocation is under way for a request to this path
RequestTo(path) == pc # "idle" /\ Get(event, "path") = Str(path)

\* the request is no CORS preflight and its body, if any, is JSON
WellFormed ==
    /\ Get(event, "httpMethod") # Str("OPTIONS")
    /\ Get(event, "body") # Str("{bad")

\* the name of the tool or prompt the first outbound request asks for
UpstreamName == Get(Get(requests[1].body, "params"), "name")

\* C15: a request whose path is "/<name>" is served by the handler of that
\* endpoint: an upstream call it makes is for that endpoint's tool or prompt,
\* a 400 it answers names that endpoint's required parameter, /health and
\* /info answer with their own documents; a path matching no endpoint yields
\* 404 with "/health" among the available_endpoints.
C15_OwnHandler ==
    /\ \A name \in DOMAIN OwnRequired :
          (RequestTo("/" \o name) /\ WellFormed) =>
              IF call # Undef
              THEN UpstreamName = Str(OwnUpstream[name])
              ELSE /\ response.statusCode = 400
                   /\ Get(response.body, "required") = Arr(<<Str(OwnRequired[name])>>)
    /\ (RequestTo("/health") /\ WellFormed) =>
          response.statusCode = 200 /\ Get(response.body, "status") = Str("healthy")
    /\ (RequestTo("/info") /\ WellFormed) =>
          response.statusCode = 200 /\ Get(response.body, "service") # Undef
    /\ (RequestTo("/nope") /\ WellFormed) =>
          /\ response.statusCode = 404
          /\ \E i \in 1..Len(Get(response.body, "available_endpoints").a) :
                Get(response.body, "available_endpoints").a[i] = Str("/health")

\* a failure was raised while the invocation ran: the body did not parse, the
\* upstream call threw, or the normalisation of its result threw
FailureRaised ==
    \/ Get(event, "httpMethod") # Str("OPTIONS") /\ Get(event, "body") = Str("{bad")
    \/ call # Undef /\ outcome.do = "throw"

\* C16: every invocation ends with a response object, and one during which
\* a failure was raised ends with a status-500 response whose body carries
\* the error.
C16_FailuresBecome500 ==
    pc = "done" =>
        /\ response # Undef
        /\ response.statusCode \in {200, 400, 404, 500}
        /\ response.body.t = "obj"
        /\ FailureRaised =>
              response.statusCode = 500 /\ Get(response.body, "error") # Undef

\* the parameters of the request, as the handler of the endpoint reads them,
\* lack the parameter k
Lacks(name, k) ==
    LET params == extractParams(event) IN
    params.ok /\ Get(ProfileOf(HandlerOf[name], params.val), k) = Undef

\* C17: for every endpoint with a required parameter, a request to it that
\* lacks the parameter is answered 400 with a required list of exactly that
\* parameter name.
C17_MissingRequiredIs400 ==
    \A name \in DOMAIN OwnRequired :
        (pc = "done" /\ RequestTo("/" \o name) /\ WellFormed
            /\ Lacks(name, OwnRequired[name])) =>
            /\ response.statusCode = 400
            /\ Get(response.body, "required") = Arr(<<Str(OwnRequired[name])>>)

\* C19: an invocation that ends with a 400, a 404 or the 200 of a CORS
\* preflight has issued no outbound request, and whenever an outbound request
\* has been issued the handler's required parameter is present among the
\* parameters it read.
C19_ValidationPrecedesIO ==
    /\ (pc = "done" /\ response.statusCode \in {400, 404}) => requests = <<>>
    /\ (pc = "done" /\ Get(event, "httpMethod") = Str("OPTIONS")) =>
          requests = <<>> /\ response.statusCode = 200
    /\ requests # <<>> =>
          Get(call.profile, Handlers[call.handler].required) # Undef

C19_Witness ==
    /\ pc = "done"
    /\ Get(event, "path") = Str("/fiscal-consultation")
    /\ Get(event, "httpMethod") = Str("POST")
    /\ response.statusCode = 400
    /\ Get(response.body, "required") = Arr(<<Str("business_type")>>)
    /\ requests = <<>>

(***************************************************************************)
(* Response decoding (checked under PureSpec).                             *)
(***************************************************************************)
\* the text behind the marker of the first line that starts with the data
\* marker; the body has one
FirstMarked(data) ==
    data[CHOOSE i \in 1..Len(data) :
            /\ data[i].pre = "data: "
            /\ \A j \in 1..(i - 1) : data[j].pre # "data: "].rest

\* the JSON value of a text, or the raw body when the text is not JSON
ParsedOr(text, raw) == IF text \in DOMAIN JsonTexts THEN JsonTexts[text] ELSE Str(raw)

\* C18: makeHttpRequest resolves with the upstream status code and, for an
\* event stream with a line that starts with the data marker, the JSON value
\* of the first such line without the marker; otherwise the JSON value of the
\* whole body; whenever the text is not JSON, the raw body text.
C18_Decoding ==
    Applied("makeHttpRequest") =>
        LET raw == RawText(arg.data, 1)
            marked == \E i \in 1..Len(arg.data) : arg.data[i].pre = "data: "
        IN  /\ out.ok
            /\ out.val.statusCode = arg.statusCode
            /\ out.val.body = IF arg.sse /\ marked
                              THEN ParsedOr(FirstMarked(arg.data), raw)
                              ELSE ParsedOr(raw, raw)

C18_Witness ==
    /\ Applied("makeHttpRequest")
    /\ arg = [statusCode |-> 400, sse |-> TRUE,
               data |-> <<EventLine,
                          [pre |-> "data: ", rest |-> "{\"error\":{\"code\":-32600}}"]>>]
    /\ out.val = [statusCode |-> 400, body |-> Obj([error |-> Obj([code |-> Num(-32600)])])]

(***************************************************************************)
(* The recommendation response (checked under Spec).                       *)
(***************************************************************************)
\* the invocation ended with a status-200 response of the recommendation
\* endpoint
Recommended ==
    pc = "done" /\ call # Undef /\ call.handler = "recommendation"
        /\ response.statusCode = 200

\* C20: in every status-200 response of the recommendation endpoint,
\* matches_count is the length of sources; when the upstream call returned
\* and its result was normalised, sources holds one entry per extracted
\* document, in the same order; when the upstream call failed, sources is
\* empty and matches_count is 0.
C20_CountMatchesSources ==
    Recommended =>
        LET sources == Get(response.body, "sources").a
            count == Get(response.body, "matches_count")
            docs == extractDocuments(outcome.val)
        IN  /\ count = Num(Len(sources))
            /\ outcome.do = "throw" => sources = <<>> /\ count = Num(0)
            /\ (outcome.do = "return" /\ extractMcpResponse(outcome.val).ok /\ docs.ok) =>
                  /\ Len(sources) = Len(docs.val.a)
                  /\ \A i \in 1..Len(sources) :
                        Get(sources[i], "title") =
                            Or(Get(docs.val.a[i], "title"), Str("Documento fiscal"))

C20_Witness ==
    /\ Recommended
    /\ outcome = [do |-> "return", val |-> Obj([data |-> Obj([sources |-> Arr(<<DocB, DocA>>)])])]
    /\ Get(response.body, "matches_count") = Num(2)
    /\ Len(Get(response.body, "sources").a) = 2
    /\ Get(Get(response.body, "sources").a[1], "title") = Str("B")
    /\ Get(Get(response.body, "sources").a[2], "title") = Str("A")

====
